---- MODULE Spec2Model ----
(***************************************************************************)
(* Model of src/app.py, the Sri Lanka climate dashboard script.            *)
(*                                                                         *)
(* The script is one top-to-bottom run: load the CSV, reshape it from the  *)
(* wide layout to the long one, build the sidebar widgets, filter the long *)
(* table by the widgets' values and compute three KPIs.  A widget change   *)
(* makes the script run again with the new widget values.                  *)
(*                                                                         *)
(* Numbers.  A CSV cell and a column label are text; pd.to_numeric turns   *)
(* them into numbers or NaN.  Values are whole numbers here, and the mean  *)
(* is an exact rational (no floating-point error is modelled);             *)
(* average_value is kept in hundredths, since round(.., 2) yields a        *)
(* multiple of 0.01.                                                       *)
(***************************************************************************)
EXTENDS Integers, Sequences, FiniteSets, TLC

\* ------------------------------------------------------------------ bounds
\* The raw table has at most MaxRows rows, MaxCols columns after the first
\* one and MaxCells cells in those columns; a numeric cell is 1..MaxValue.
MaxRows == 2
MaxCols == 2
MaxCells == 4
MaxValue == 2

\* ------------------------------------------------------- program constants
\* The lower end of the slider's default value, (2000, max_year).
DefaultLo == 2000

\* ------------------------------------------------------------ input domain
\* NaN, the result of a failed coercion, lies outside the numeric domain.
NaN == 0 - 1

\* Indicator names, in lexicographic order.
IndicatorOrder == <<"A", "B">>
SeqsUpTo(S, n) == UNION {[1..k -> S] : k \in 0..n}
Range(s) == {s[i] : i \in 1..Len(s)}
Distinct(s) == \A i, j \in 1..Len(s) : s[i] = s[j] => i = j

Indicators == {IndicatorOrder[i] : i \in 1..Len(IndicatorOrder)}
Years == {DefaultLo - 1, DefaultLo, DefaultLo + 1}
\* Column labels: year labels, and the two labels of the long layout, which
\* are also the non-numeric labels of the model.
Labels == {ToString(y) : y \in Years} \cup {"Year", "Value"}
\* Cell texts: numerals, a non-numeric text, and the empty (missing) cell.
Missing == ""
CellTexts == {ToString(v) : v \in 1..MaxValue} \cup {"x", Missing}

\* read_csv gives every column its own label, so the labels are distinct.
ColumnSeqs == {cs \in SeqsUpTo(Labels, MaxCols) : Distinct(cs)}
RowCounts(cs) == {r \in 0..MaxRows : r * Len(cs) <= MaxCells}
RowsFor(cs) ==
    UNION {[1..r -> [name : Indicators \cup {Missing}, cells : [1..Len(cs) -> CellTexts]]] : r \in RowCounts(cs)}

\* ------------------------------------------------------------------- state
VARIABLES
    raw,                 \* the CSV file: columns (after the first) and rows
    df,                  \* the frame load_data returns
    df_long,             \* the long frame: records Indicator, Year, Value, index
    indicators,          \* options of the selectbox
    min_year, max_year,  \* year bounds
    default_range,       \* the value argument of the slider
    selected_indicator,  \* the selectbox's value
    year_range,          \* the slider's value
    interacted,          \* the user has changed a widget
    filtered,            \* the filtered frame
    latest_value, max_value, average_value,
    pc,                  \* the step of the script that ran last
    error                \* the exception that step raised, or "none"

vars == <<raw, df, df_long, indicators, min_year, max_year, default_range,
          selected_indicator, year_range, interacted, filtered,
          latest_value, max_value, average_value, pc, error>>

\* ----------------------------------------------------------------- helpers
Min(a, b) == IF a <= b THEN a ELSE b
Max(a, b) == IF a >= b THEN a ELSE b
SetMin(S) == CHOOSE x \in S : \A y \in S : x <= y
SetMax(S) == CHOOSE x \in S : \A y \in S : x >= y

RECURSIVE SeqSum(_)
SeqSum(s) == IF s = <<>> THEN 0 ELSE Head(s) + SeqSum(Tail(s))

RECURSIVE SelectRows(_, _)
SelectRows(s, keep) ==
    IF s = <<>> THEN <<>>
    ELSE IF keep[1] THEN <<Head(s)>> \o SelectRows(Tail(s), Tail(keep))
         ELSE SelectRows(Tail(s), Tail(keep))

\* pd.to_numeric(.., errors="coerce"): the number a text denotes, else NaN.
to_numeric(text) ==
    LET nums == {n \in (1..MaxValue) \cup Years : ToString(n) = text}
    IN IF nums = {} THEN NaN ELSE CHOOSE n \in nums : TRUE

\* ----------------------------------------------------------------- load_data
HasMissing(row) ==
    row.name = Missing \/ \E j \in 1..Len(row.cells) : row.cells[j] = Missing

\* df.dropna() on the frame as read: a row with an empty field goes.
load_data(table) ==
    [columns |-> table.columns,
     rows |-> SelectRows(table.rows, [i \in 1..Len(table.rows) |-> ~HasMissing(table.rows[i])])]

\* -------------------------------------------------------------- Prepare Data
\* df[year_columns].apply(pd.to_numeric, errors="coerce")
CoerceCells(frame) ==
    [columns |-> frame.columns,
     rows |-> [i \in 1..Len(frame.rows) |->
                 [name |-> frame.rows[i].name,
                  cells |-> [j \in 1..Len(frame.columns) |-> to_numeric(frame.rows[i].cells[j])]]]]

\* melt as it would be with the first year column left out of the value columns.
melt_skipping_first(frame) ==
    LET n == Len(frame.rows)
        m == Len(frame.columns)
    IN [k \in 1..(n * (m - 1)) |->
           LET j == ((k - 1) \div n) + 2
               i == ((k - 1) % n) + 1
           IN [Indicator |-> frame.rows[i].name,
               Year |-> frame.columns[j],
               Value |-> frame.rows[i].cells[j],
               index |-> k - 1]]

\* df.melt(id_vars=["Indicator"], var_name="Year", value_name="Value"):
\* column after column, the rows of each in the frame's order, indexed from 0.
melt(frame) ==
    LET n == Len(frame.rows)
        m == Len(frame.columns)
    IN [k \in 1..(n * m) |->
           LET j == ((k - 1) \div n) + 1
               i == ((k - 1) % n) + 1
           IN [Indicator |-> frame.rows[i].name,
               Year |-> frame.columns[j],
               Value |-> frame.rows[i].cells[j],
               index |-> k - 1]]

\* pd.to_numeric(df_long["Year"], errors="coerce")
CoerceYear(long) ==
    [k \in 1..Len(long) |-> [long[k] EXCEPT !.Year = to_numeric(long[k].Year)]]

\* Line 34, pd.to_numeric(df_long["Value"], errors="coerce"), finds the values
\* already numbers or NaN after line 26 and leaves them as they are.

\* dropna as it would be looking at the Year column alone.
dropna_year_only(long) ==
    SelectRows(long, [k \in 1..Len(long) |-> long[k].Year # NaN])

\* df_long.dropna()
dropna(long) ==
    SelectRows(long, [k \in 1..Len(long) |-> long[k].Year # NaN /\ long[k].Value # NaN])

df_long_of(frame) == dropna(CoerceYear(melt(CoerceCells(frame))))

\* melt refuses a frame that already has a column named as value_name.
MeltRaises(frame) == "Value" \in Range(frame.columns)

\* ------------------------------------------------------------------ sidebar
YearsOf(long) == {long[k].Year : k \in 1..Len(long)}
ValuesOf(long) == {long[k].Value : k \in 1..Len(long)}

\* sorted(df_long["Indicator"].unique())
indicators_of(long) ==
    SelectRows(IndicatorOrder, [i \in 1..Len(IndicatorOrder) |->
        \E k \in 1..Len(long) : long[k].Indicator = IndicatorOrder[i]])

\* st.sidebar.slider(label, min_year, max_year, (2000, max_year)).  The widget
\* is library code: it puts the two ends of its value in order and widens
\* its limits to hold the value, so that the range it returns on the first
\* run is the ordered default, and later any range within the limits.
SliderValue(v) == IF v[1] > v[2] THEN <<v[2], v[1]>> ELSE v
slider_min == Min(SliderValue(default_range)[1], min_year)
slider_max == Max(SliderValue(default_range)[2], max_year)

\* ----------------------------------------------------------------- filtered
\* The filter as it would be with an exclusive upper bound.
FilterRowsExclusive(long, ind, lo, hi) ==
    SelectRows(long, [k \in 1..Len(long) |->
        long[k].Indicator = ind /\ long[k].Year >= lo /\ long[k].Year < hi])

FilterRows(long, ind, lo, hi) ==
    SelectRows(long, [k \in 1..Len(long) |->
        long[k].Indicator = ind /\ long[k].Year >= lo /\ long[k].Year <= hi])

\* --------------------------------------------------------------------- KPIs
\* The latest value as it would be with .values[-1].
LatestValueLast(f) ==
    LET latest_year == SetMax(YearsOf(f))
        k == SetMax({i \in 1..Len(f) : f[i].Year = latest_year})
    IN f[k].Value

\* filtered[filtered["Year"] == latest_year]["Value"].values[0]
LatestValue(f) ==
    LET latest_year == SetMax(YearsOf(f))
        k == SetMin({i \in 1..Len(f) : f[i].Year = latest_year})
    IN f[k].Value

\* The multiple of 1/den nearest to num/den, a tie going to the even one.
RoundHalfEven(num, den) ==
    LET q == num \div den
        r == num % den
    IN IF 2 * r < den THEN q
       ELSE IF 2 * r > den THEN q + 1
       ELSE IF q % 2 = 0 THEN q ELSE q + 1

\* The average as it would be cut, not rounded, to 2 decimal places.
AverageValueTruncated(f) ==
    (100 * SeqSum([k \in 1..Len(f) |-> f[k].Value])) \div Len(f)

\* round(filtered["Value"].mean(), 2), in hundredths.
AverageValue(f) ==
    RoundHalfEven(100 * SeqSum([k \in 1..Len(f) |-> f[k].Value]), Len(f))

MaxValueOf(f) == SetMax(ValuesOf(f))

\* -------------------------------------------------------------------- steps
Init ==
    /\ \E cs \in ColumnSeqs : \E rs \in RowsFor(cs) : raw = [columns |-> cs, rows |-> rs]
    /\ df = [columns |-> <<>>, rows |-> <<>>]
    /\ df_long = <<>>
    /\ indicators = <<>>
    /\ min_year = NaN
    /\ max_year = NaN
    /\ default_range = <<NaN, NaN>>
    /\ selected_indicator = ""
    /\ year_range = <<NaN, NaN>>
    /\ interacted = FALSE
    /\ filtered = <<>>
    /\ latest_value = NaN
    /\ max_value = NaN
    /\ average_value = NaN
    /\ pc = "start"
    /\ error = "none"

\* Lines 10-15.
LoadData ==
    /\ pc = "start"
    /\ df' = load_data(raw)
    /\ pc' = "load_data"
    /\ UNCHANGED <<raw, df_long, indicators, min_year, max_year, default_range,
                   selected_indicator, year_range, interacted, filtered,
                   latest_value, max_value, average_value, error>>

\* Lines 22-35.
PrepareData ==
    /\ pc = "load_data"
    /\ pc' = "prepare"
    /\ IF MeltRaises(df)
       THEN /\ error' = "ValueError"
            /\ UNCHANGED df_long
       ELSE /\ df_long' = df_long_of(df)
            /\ UNCHANGED error
    /\ UNCHANGED <<raw, df, indicators, min_year, max_year, default_range,
                   selected_indicator, year_range, interacted, filtered,
                   latest_value, max_value, average_value>>

\* Lines 39-43, first run: the widgets take their defaults.
Sidebar ==
    /\ pc = "prepare"
    /\ error = "none"
    /\ pc' = "sidebar"
    /\ indicators' = indicators_of(df_long)
    /\ IF df_long = <<>>
       THEN \* int(nan)
            /\ error' = "ValueError"
            /\ UNCHANGED <<min_year, max_year, default_range, selected_indicator, year_range>>
       ELSE /\ min_year' = SetMin(YearsOf(df_long))
            /\ max_year' = SetMax(YearsOf(df_long))
            /\ default_range' = <<DefaultLo, max_year'>>
            /\ selected_indicator' = indicators'[1]
            /\ year_range' = SliderValue(default_range')
            /\ UNCHANGED error
    /\ UNCHANGED <<raw, df, df_long, interacted, filtered,
                   latest_value, max_value, average_value>>

\* Lines 46-48.
Filter ==
    /\ pc = "sidebar"
    /\ error = "none"
    /\ pc' = "filter"
    /\ filtered' = FilterRows(df_long, selected_indicator, year_range[1], year_range[2])
    /\ UNCHANGED <<raw, df, df_long, indicators, min_year, max_year, default_range,
                   selected_indicator, year_range, interacted,
                   latest_value, max_value, average_value, error>>

\* Lines 74-77.
KPIs ==
    /\ pc = "filter"
    /\ pc' = "kpis"
    /\ IF filtered = <<>>
       THEN \* .values[0] of an empty array
            /\ error' = "IndexError"
            /\ UNCHANGED <<latest_value, max_value, average_value>>
       ELSE /\ latest_value' = LatestValue(filtered)
            /\ average_value' = AverageValue(filtered)
            /\ max_value' = MaxValueOf(filtered)
            /\ UNCHANGED error
    /\ UNCHANGED <<raw, df, df_long, indicators, min_year, max_year, default_range,
                   selected_indicator, year_range, interacted, filtered>>

\* The user changes a widget and the script runs again down to line 43:
\* the frames come out as before, the widgets return the user's values.
Interact ==
    /\ pc = "kpis"
    /\ \E ind \in Range(indicators), lo \in slider_min..slider_max, hi \in slider_min..slider_max :
        /\ lo <= hi
        /\ <<ind, lo, hi>> # <<selected_indicator, year_range[1], year_range[2]>>
        /\ selected_indicator' = ind
        /\ year_range' = <<lo, hi>>
    /\ interacted' = TRUE
    /\ pc' = "sidebar"
    /\ error' = "none"
    /\ filtered' = <<>>
    /\ latest_value' = NaN
    /\ max_value' = NaN
    /\ average_value' = NaN
    /\ UNCHANGED <<raw, df, df_long, indicators, min_year, max_year, default_range>>

Next ==
    \/ LoadData
    \/ PrepareData
    \/ Sidebar
    \/ Filter
    \/ KPIs
    \/ Interact

Spec == Init /\ [][Next]_vars

\* ------------------------------------------------------------------ claims
Ran(step) == pc = step
Summarised == pc = "kpis"
Filtered == pc \in {"filter", "kpis"}
Prepared == pc \in {"prepare", "sidebar", "filter", "kpis"} /\ ~(pc = "prepare" /\ error # "none")

\* What the claims say of a sequence of Observations, stated without the
\* operators of the script.
Matches(o, ind, lo, hi) == o.Indicator = ind /\ lo <= o.Year /\ o.Year <= hi
AscendingByYear(f) == \A i, j \in 1..Len(f) : i < j => f[i].Year <= f[j].Year
IsMaxYear(f, i) == \A j \in 1..Len(f) : f[j].Year <= f[i].Year
FirstOfMaxYear(f, i) == IsMaxYear(f, i) /\ \A j \in 1..(i - 1) : f[j].Year < f[i].Year
\* h hundredths is a multiple of 0.01 nearest to the mean of the values of f.
NearestHundredth(f, h) ==
    LET n == Len(f)
        d == h * n - 100 * SeqSum([k \in 1..n |-> f[k].Value])
    IN 2 * d <= n /\ 2 * (0 - d) <= n

\* C1: when the filtered sequence is empty, the summary ends in an explicit
\* EmptyResultError, never in an index fault on the first element.
C1_EmptySummaryIsEmptyResultError ==
    (Summarised /\ filtered = <<>>) => (error = "EmptyResultError" /\ error # "IndexError")

\* C2: an Observation of the loaded set is in the filter result iff its
\* indicator is the selected one and its year lies in the inclusive range;
\* the result holds nothing else and nothing twice.
C2_FilterIffMatches ==
    Filtered =>
        /\ \A o \in Range(df_long) :
              o \in Range(filtered)
                  <=> Matches(o, selected_indicator, year_range[1], year_range[2])
        /\ Range(filtered) \subseteq Range(df_long)
        /\ Cardinality(Range(filtered)) = Len(filtered)

C2_Witness ==
    /\ Ran("filter")
    /\ \E o \in Range(filtered) : o.Year = year_range[1]
    /\ \E o \in Range(filtered) : o.Year = year_range[2]
    /\ \E o \in Range(df_long) : o.Indicator = selected_indicator /\ o \notin Range(filtered)
    /\ \E o \in Range(df_long) : o.Indicator # selected_indicator /\ o.Year = year_range[1]

\* C3: the filter result is ordered ascending by year, whatever the order of
\* the year columns of the input.
C3_FilterAscendingByYear == Filtered => AscendingByYear(filtered)

\* C4, as claimed: latest_value is the value of the first Observation with the
\* maximum year, and that is the last element of the filtered sequence.
C4_LatestIsLastElement ==
    (Summarised /\ error = "none") =>
        /\ \E i \in 1..Len(filtered) :
              FirstOfMaxYear(filtered, i) /\ latest_value = filtered[i].Value
        /\ latest_value = filtered[Len(filtered)].Value

\* C4, amended: latest_value is the value of the first Observation, in the
\* order of the filtered sequence, that has the maximum year; it is the value
\* of the last element whenever the last element alone has the maximum year.
C4_LatestIsFirstOfMaxYear ==
    (Summarised /\ error = "none") =>
        /\ \E i \in 1..Len(filtered) :
              FirstOfMaxYear(filtered, i) /\ latest_value = filtered[i].Value
        /\ FirstOfMaxYear(filtered, Len(filtered))
              => latest_value = filtered[Len(filtered)].Value

C4_Witness ==
    /\ Summarised /\ error = "none"
    /\ \E i, j \in 1..Len(filtered) :
          /\ i < j
          /\ IsMaxYear(filtered, i) /\ IsMaxYear(filtered, j)
          /\ filtered[i].Value # filtered[j].Value
          /\ FirstOfMaxYear(filtered, i)
          /\ latest_value = filtered[i].Value

\* The example of C5: values 1, 3, 2 for the years 2000..2002.
Example ==
    [k \in 1..3 |-> [Indicator |-> "A", Year |-> DefaultLo + k - 1,
                     Value |-> <<1, 3, 2>>[k], index |-> k - 1]]

\* C5: max_value is the maximum of the values of the filtered sequence and
\* average_value their mean rounded to 2 decimal places; the example gives
\* latest 2.0, max 3.0, average 2.0.
C5_MaxAndAverage ==
    /\ (Summarised /\ error = "none") =>
          /\ max_value \in ValuesOf(filtered)
          /\ \A v \in ValuesOf(filtered) : v <= max_value
          /\ NearestHundredth(filtered, average_value)
    /\ LatestValue(Example) = 2
    /\ MaxValueOf(Example) = 3
    /\ AverageValue(Example) = 200

C5_Witness ==
    /\ Summarised /\ error = "none"
    /\ Len(filtered) = 3
    /\ max_value # latest_value
    /\ average_value = 167

\* The long layout: an indicator column, then Year and Value.
IsLongLayout(table) == table.columns = <<"Year", "Value">>

\* C6: for an input in the long layout the loader yields one Observation per
\* input row, made of the row's indicator, year and value.
C6_LongLayoutOnePerRow ==
    (IsLongLayout(raw) /\ pc \in {"prepare", "sidebar", "filter", "kpis"}) =>
        /\ error # "ValueError"
        /\ \A i \in 1..Len(raw.rows) :
              (\A j \in 1..2 : to_numeric(raw.rows[i].cells[j]) # NaN) =>
                  \E o \in Range(df_long) :
                      /\ o.Indicator = raw.rows[i].name
                      /\ o.Year = to_numeric(raw.rows[i].cells[1])
                      /\ o.Value = to_numeric(raw.rows[i].cells[2])

\* A wide table each of whose rows names its indicator, all of whose labels
\* are years and all of whose cells are numbers.
FullyNumeric(table) ==
    /\ \A i \in 1..Len(table.rows) : table.rows[i].name # Missing
    /\ \A j \in 1..Len(table.columns) : to_numeric(table.columns[j]) # NaN
    /\ \A i \in 1..Len(table.rows) : \A j \in 1..Len(table.columns) :
          to_numeric(table.rows[i].cells[j]) # NaN

\* C7: a fully numeric wide table of n rows and m year columns yields exactly
\* n*m Observations, one per cell, each with the cell's indicator, the year of
\* its column label and its value.
C7_OnePerCell ==
    (Prepared /\ FullyNumeric(raw)) =>
        /\ Len(df_long) = Len(raw.rows) * Len(raw.columns)
        /\ \A i \in 1..Len(raw.rows) : \A j \in 1..Len(raw.columns) :
              Cardinality({k \in 1..Len(df_long) :
                  /\ df_long[k].index = (j - 1) * Len(raw.rows) + (i - 1)
                  /\ df_long[k].Indicator = raw.rows[i].name
                  /\ df_long[k].Year = to_numeric(raw.columns[j])
                  /\ df_long[k].Value = to_numeric(raw.rows[i].cells[j])}) = 1

C7_Witness ==
    /\ Ran("prepare") /\ error = "none"
    /\ raw.columns = <<ToString(DefaultLo), ToString(DefaultLo + 1)>>
    /\ Len(raw.rows) = 2
    /\ raw.rows[1].name = "A" /\ raw.rows[2].name = "B"
    /\ FullyNumeric(raw)
    /\ Len(df_long) = 4

\* The cell of the loaded frame that the long frame's index k comes from.
RowOf(k) == (k % Len(df.rows)) + 1
ColOf(k) == (k \div Len(df.rows)) + 1

C9_YearBoundsOrEmptyDatasetError ==
    Ran("sidebar") =>
        /\ df_long # <<>> =>
              /\ error = "none"
              /\ min_year \in YearsOf(df_long) /\ max_year \in YearsOf(df_long)
              /\ \A y \in YearsOf(df_long) : min_year <= y /\ y <= max_year
              /\ min_year <= max_year
        /\ df_long = <<>> => error = "EmptyDatasetError"

\* C10: the default year range seeded into the slider and passed to the
\* filter satisfies year_lo <= year_hi, min_year <= year_lo and
\* year_hi <= max_year.
InBounds(r) == r[1] <= r[2] /\ min_year <= r[1] /\ r[2] <= max_year
C10_DefaultRangeInBounds ==
    (pc \in {"sidebar", "filter", "kpis"} /\ error = "none" /\ ~interacted) =>
        InBounds(default_range) /\ InBounds(year_range)

====
